---- MODULE Spec2Model ----
(***************************************************************************)
(* Model of sp1-dkim/program/src/main.rs: the zkVM guest program that      *)
(* reads (from_domain, raw_email, public_key_type, public_key_vec),        *)
(* commits the SHA-256 digests of the domain and of the key, the DKIM      *)
(* verdict as a boolean, and the three captures of a fixed regex applied   *)
(* to the lossily decoded email.                                           *)
(*                                                                         *)
(* Representation.  A byte is a string: an ASCII byte is the one-character *)
(* string of its character, a byte >= 0x80 is its two-digit hex name       *)
(* ("E2", "82", "B9", "FF").  A char (Unicode scalar) is a string too: an  *)
(* ASCII char is its one-character string, any other char is "U+....".     *)
(* A byte sequence and a text are sequences of these.                      *)
(***************************************************************************)
EXTENDS Naturals, Sequences, FiniteSets, TLC

(***************************************************************************)
(* Bytes, chars, UTF-8                                                     *)
(***************************************************************************)
LF == "\n"

HighBytes == {"E2", "82", "B9", "FF"}

\* UTF-8 continuation bytes (0x80..0xBF) among HighBytes.
Continuation == {"82", "B9"}

\* U+20B9 INDIAN RUPEE SIGN, UTF-8 E2 82 B9: the currency marker of the regex.
Rupee == "U+20B9"

\* U+FFFD REPLACEMENT CHARACTER, what from_utf8_lossy puts for invalid bytes.
Replacement == "U+FFFD"

\* The scalar encoded by E2 c1 c2 (c1, c2 continuation bytes).
Char3(c1, c2) ==
    IF c1 = "82" /\ c2 = "B9" THEN Rupee
    ELSE IF c1 = "82" /\ c2 = "82" THEN "U+2082"
    ELSE IF c1 = "B9" /\ c2 = "82" THEN "U+2E42"
    ELSE "U+2E79"

RECURSIVE Utf8Chunks(_, _)
\* The decoding of bytes b from index i on: a valid sequence gives its char,
\* a maximal invalid prefix gives one Replacement.
Utf8Chunks(b, i) ==
    IF i > Len(b) THEN << >>
    ELSE IF b[i] \notin HighBytes THEN <<b[i]>> \o Utf8Chunks(b, i + 1)
    ELSE IF b[i] = "E2" /\ i + 1 <= Len(b) /\ b[i + 1] \in Continuation
         THEN IF i + 2 <= Len(b) /\ b[i + 2] \in Continuation
              THEN <<Char3(b[i + 1], b[i + 2])>> \o Utf8Chunks(b, i + 3)
              ELSE <<Replacement>> \o Utf8Chunks(b, i + 2)
    ELSE <<Replacement>> \o Utf8Chunks(b, i + 1)

\* String::from_utf8_lossy(&raw_email)
FromUtf8Lossy(b) == Utf8Chunks(b, 1)

RECURSIVE AsBytes(_)
\* str::as_bytes: the UTF-8 encoding of a text.
AsBytes(s) ==
    IF s = << >> THEN << >>
    ELSE (IF Head(s) = Rupee THEN <<"E2", "82", "B9">> ELSE <<Head(s)>>)
         \o AsBytes(Tail(s))

\* Sha256::new(); update(bytes); finalize(): the digest of a byte sequence,
\* kept symbolic, as the term sha256(bytes): equal digests iff equal inputs,
\* and no digest is a byte sequence ("sha256" is no byte).
Sha256(bytes) == <<"sha256">> \o bytes

(***************************************************************************)
(* The regex of line 47 and the leftmost-first (backtracking-order) search *)
(* of the regex crate.                                                     *)
(***************************************************************************)
Whitespace == {" ", "\t", LF, "\r"}
Digits == {"0", "1", "2", "3", "4", "5", "6", "7", "8", "9"}
UpperCase == {"A", "B", "C", "D", "E", "F", "G", "H", "I", "J", "K", "L", "M",
              "N", "O", "P", "Q", "R", "S", "T", "U", "V", "W", "X", "Y", "Z"}

\* Character classes of the pattern: \s, \d, . (anything but a line feed),
\* [A-Z0-9], and a literal character.
Space == [k |-> "\\s"]
Digit == [k |-> "\\d"]
AnyChar == [k |-> "."]
UpperOrDigit == [k |-> "[A-Z0-9]"]
Ch(c) == [k |-> "=", c |-> c]

InClass(c, cls) ==
    CASE cls.k = "\\s"      -> c \in Whitespace
      [] cls.k = "\\d"      -> c \in Digits
      [] cls.k = "."        -> c # LF
      [] cls.k = "[A-Z0-9]" -> c \in UpperCase \cup Digits
      [] cls.k = "="        -> c = cls.c

\* Pattern items: a fixed run of classes, an optional fixed run (taken when it
\* can be), a repetition of one class (greedy or lazy), a group boundary.
Lit(s) == [t |-> "lit", cs |-> [i \in 1..Len(s) |-> Ch(s[i])]]
OptSeq(cs) == [t |-> "opt", cs |-> cs]
Star(cls) == [t |-> "rep", cls |-> cls, min |-> 0, greedy |-> TRUE]
Plus(cls) == [t |-> "rep", cls |-> cls, min |-> 1, greedy |-> TRUE]
LazyStar(cls) == [t |-> "rep", cls |-> cls, min |-> 0, greedy |-> FALSE]
LazyPlus(cls) == [t |-> "rep", cls |-> cls, min |-> 1, greedy |-> FALSE]
Open(g) == [t |-> "open", g |-> g]
Close(g) == [t |-> "close", g |-> g]

PaidTo == <<"P", "a", "i", "d", " ", "t", "o">>
DebitedFrom == <<"D", "e", "b", "i", "t", "e", "d", " ", "f", "r", "o", "m">>

\* The pattern with the gap before "Debited from" greedy: .* for .*?
re_GreedyGap ==
    << Lit(PaidTo), Star(Space), Lit(<<":">>), Star(Space),
       Open(1), LazyPlus(AnyChar), Close(1),
       Star(Space), LazyStar(AnyChar), Lit(<<Rupee>>), Star(Space),
       Open(2), Plus(Digit), OptSeq(<<Ch("."), Digit, Digit>>), Close(2),
       Star(AnyChar), Lit(DebitedFrom), Star(Space), Lit(<<":">>), Star(Space),
       Open(3), Plus(UpperOrDigit), Close(3) >>

\* Paid to\s*:\s*(.+?)\s*.*?₹\s*(\d+(?:\.\d{2})?).*?Debited from\s*:\s*([A-Z0-9]+)
re ==
    << Lit(PaidTo), Star(Space), Lit(<<":">>), Star(Space),
       Open(1), LazyPlus(AnyChar), Close(1),
       Star(Space), LazyStar(AnyChar), Lit(<<Rupee>>), Star(Space),
       Open(2), Plus(Digit), OptSeq(<<Ch("."), Digit, Digit>>), Close(2),
       LazyStar(AnyChar), Lit(DebitedFrom), Star(Space), Lit(<<":">>), Star(Space),
       Open(3), Plus(UpperOrDigit), Close(3) >>

\* No group has taken part in a match yet.
NoGroups == [g \in 1..3 |-> [set |-> FALSE, from |-> 1, to |-> 0]]

NoMatch == [ok |-> FALSE, groups |-> NoGroups]

\* The classes cs match the text t at positions pos, pos+1, ...
SeqAt(t, pos, cs) ==
    /\ pos + Len(cs) - 1 <= Len(t)
    /\ \A i \in 1..Len(cs) : InClass(t[pos + i - 1], cs[i])

RECURSIVE RunLen(_, _, _)
\* How many chars of class cls stand in a row in t from pos on.
RunLen(t, pos, cls) ==
    IF pos <= Len(t) /\ InClass(t[pos], cls) THEN 1 + RunLen(t, pos + 1, cls) ELSE 0

RECURSIVE MatchFrom(_, _, _, _), TryRep(_, _, _, _, _, _)
\* The first match, in backtracking order, of items k.. of the pattern at
\* position pos of t, the groups so far being g.
MatchFrom(t, k, pos, g) ==
    IF k > Len(re) THEN [ok |-> TRUE, groups |-> g]
    ELSE LET n == re[k] IN
         CASE n.t = "lit" ->
                IF SeqAt(t, pos, n.cs) THEN MatchFrom(t, k + 1, pos + Len(n.cs), g)
                ELSE NoMatch
           [] n.t = "opt" ->
                LET taken == IF SeqAt(t, pos, n.cs)
                             THEN MatchFrom(t, k + 1, pos + Len(n.cs), g)
                             ELSE NoMatch
                IN  IF taken.ok THEN taken ELSE MatchFrom(t, k + 1, pos, g)
           [] n.t = "open" ->
                MatchFrom(t, k + 1, pos, [g EXCEPT ![n.g] = [set |-> TRUE, from |-> pos, to |-> pos - 1]])
           [] n.t = "close" ->
                MatchFrom(t, k + 1, pos, [g EXCEPT ![n.g].to = pos - 1])
           [] n.t = "rep" ->
                LET most == RunLen(t, pos, n.cls)
                IN  IF most < n.min THEN NoMatch
                    ELSE TryRep(t, k, pos, g, n.min, most)

\* Item k, a repetition, taking between lo and hi chars: the first count, in
\* the item's order (the most first when greedy, the fewest first when lazy),
\* with which the rest of the pattern matches.
TryRep(t, k, pos, g, lo, hi) ==
    IF lo = hi THEN MatchFrom(t, k + 1, pos + lo, g)
    ELSE LET mid == (lo + hi) \div 2
             first == IF re[k].greedy THEN TryRep(t, k, pos, g, mid + 1, hi)
                      ELSE TryRep(t, k, pos, g, lo, mid)
         IN  IF first.ok THEN first
             ELSE IF re[k].greedy THEN TryRep(t, k, pos, g, lo, mid)
             ELSE TryRep(t, k, pos, g, mid + 1, hi)

RECURSIVE Search(_, _, _)
\* The leftmost match: the match at the first start position, among lo..hi,
\* at which the pattern matches.
Search(t, lo, hi) ==
    IF lo = hi THEN MatchFrom(t, 1, lo, NoGroups)
    ELSE LET mid == (lo + hi) \div 2
             left == Search(t, lo, mid)
         IN  IF left.ok THEN left ELSE Search(t, mid + 1, hi)

\* re.captures(&email_body)
Captures(t) == Search(t, 1, Len(t) + 1)

\* captures.get(i).map_or("", |m| m.as_str()).to_string()
GroupText(t, m, i) ==
    IF m.groups[i].set THEN SubSeq(t, m.groups[i].from, m.groups[i].to) ELSE << >>

(***************************************************************************)
(* Inputs                                                                  *)
(***************************************************************************)
\* How many currency-amount / "Debited from" occurrences an email holds at most.
MaxOcc == 2

Runs == {1, 2}

Domains == { <<"b", ".", "i", "n">>, <<"J">> }
KeyTypes == { <<"r", "s", "a">>, <<"e", "d">> }
\* Key material: DER bytes 0x30 0x82 ..., or other bytes.
Keys == { <<"0", "82", "B9">>, <<"FF", "J">> }

DigitOf(i) == <<"0", "1", "2", "3", "4", "5", "6", "7", "8", "9">>[i + 1]
RupeeBytes == <<"E2", "82", "B9">>

\* What precedes the occurrences: the payee label in several spellings.
Heads ==
    { PaidTo \o <<":", "J", "o">>,
      PaidTo \o <<" ", ":", " ", "J", "o", LF>>,
      PaidTo \o <<":", " ">>,
      <<"FF">> \o PaidTo \o <<":", "FF", "o">>,
      <<"p">> \o Tail(PaidTo) \o <<":", "J", "o">>,
      DebitedFrom \o <<":", "Z", "9", " ">> \o PaidTo \o <<" ", "J", "o">> \o PaidTo \o <<":", "J", " ", "o">> }

OccKinds == 1..4

\* The i-th occurrence, of kind k: amount i (or i.50), account token A<i>.
Occurrence(k, i) ==
    CASE k = 1 -> <<" ">> \o RupeeBytes \o <<DigitOf(i), " ">> \o DebitedFrom \o <<":", "A", DigitOf(i)>>
      [] k = 2 -> <<" ">> \o RupeeBytes \o <<" ", DigitOf(i), ".", "5", "0", "x">> \o DebitedFrom
                  \o <<" ", ":", " ", "A", DigitOf(i), "b">>
      [] k = 3 -> <<" ">> \o RupeeBytes \o <<DigitOf(i), ".", "5", " ">> \o DebitedFrom \o <<":", "a", DigitOf(i)>>
      [] k = 4 -> <<LF>> \o RupeeBytes \o <<DigitOf(i), LF>> \o DebitedFrom \o <<":", "A", DigitOf(i)>>

RECURSIVE Occurrences(_, _)
\* The occurrences of kinds ks, numbered from i on, one after the other.
Occurrences(ks, i) ==
    IF ks = << >> THEN << >> ELSE Occurrence(Head(ks), i) \o Occurrences(Tail(ks), i + 1)

OccSeqs == UNION { [1..n -> OccKinds] : n \in 0..MaxOcc }

\* "Paid to : Jane Doe ... ₹100.00 ... Debited from : ABC123"
GoldenEmail ==
    <<"P", "a", "i", "d", " ", "t", "o", " ", ":", " ", "J", "a", "n", "e", " ",
      "D", "o", "e", " ", ".", ".", ".", " ", "E2", "82", "B9", "1", "0", "0", ".",
      "0", "0", " ", ".", ".", ".", " ", "D", "e", "b", "i", "t", "e", "d", " ",
      "f", "r", "o", "m", " ", ":", " ", "A", "B", "C", "1", "2", "3">>

Emails == { h \o Occurrences(ks, 1) : h \in Heads, ks \in OccSeqs } \cup {GoldenEmail}

\* The emails of the two-run comparisons: one email with no fields, and two
\* emails with the same fields.
PairEmails ==
    { PaidTo \o <<":", "J", "o">>,
      PaidTo \o <<":", "J", "o">> \o Occurrence(1, 1),
      <<"FF">> \o PaidTo \o <<":", "J", "a", "y">> \o Occurrence(1, 1) \o <<" ", "b", ".", "i", "n">> }

PairInput == [from_domain : Domains, raw_email : PairEmails,
              public_key_type : KeyTypes, public_key_vec : Keys]

\* Every email under one domain and key, and every domain, key type and key
\* under the emails of PairEmails.
RawInput ==
    [from_domain : {<<"b", ".", "i", "n">>}, raw_email : Emails,
     public_key_type : {<<"r", "s", "a">>}, public_key_vec : {<<"0", "82", "B9">>}]
    \cup PairInput

(***************************************************************************)
(* The program, run twice, one run after the other.                        *)
(***************************************************************************)
VARIABLES
    input,        \* input[r]: the four values on run r's input channel
    pc,           \* pc[r]: where run r stands
    email,        \* email[r]: parse_mail's result: "none" (not called), "ok", "err"
    public_key,   \* public_key[r]: from_vec_with_type's result: "none", "ok", "panic"
    result,       \* result[r]: verify_email_with_public_key's: "none", "err", or a summary
    is_verified,  \* is_verified[r]
    captures,     \* captures[r]: re.captures(&email_body)
    out           \* out[r]: the values committed so far, in order

vars == <<input, pc, email, public_key, result, is_verified, captures, out>>

\* The summaries a DKIMResult has.
Summaries == {"pass", "neutral", "fail"}

Terminal == {"done", "panicked"}

\* commit_slice(&bytes), commit(&bool), commit(&String): what each writes.
Slice(d) == [kind |-> "slice", val |-> d]
Bool(b) == [kind |-> "bool", val |-> b]
String(s) == [kind |-> "string", val |-> s]

\* The domain's bytes themselves, not their digest.
from_domain_raw(r) == AsBytes(input[r].from_domain)

from_domain_hash(r) == Sha256(AsBytes(input[r].from_domain))
public_key_hash(r) == Sha256(input[r].public_key_vec)
email_body(r) == FromUtf8Lossy(input[r].raw_email)

Init ==
    /\ \E i \in RawInput : input = [r \in Runs |-> i]
    /\ pc = [r \in Runs |-> "read"]
    /\ email = [r \in Runs |-> "none"]
    /\ public_key = [r \in Runs |-> "none"]
    /\ result = [r \in Runs |-> "none"]
    /\ is_verified = [r \in Runs |-> FALSE]
    /\ captures = [r \in Runs |-> NoMatch]
    /\ out = [r \in Runs |-> << >>]

InitPair ==
    /\ input \in [Runs -> PairInput]
    /\ pc = [r \in Runs |-> "read"]
    /\ email = [r \in Runs |-> "none"]
    /\ public_key = [r \in Runs |-> "none"]
    /\ result = [r \in Runs |-> "none"]
    /\ is_verified = [r \in Runs |-> FALSE]
    /\ captures = [r \in Runs |-> NoMatch]
    /\ out = [r \in Runs |-> << >>]

\* Lines 14-17: the four reads.  A run starts when the runs before it ended.
ReadInputs(r) ==
    /\ pc[r] = "read"
    /\ \A q \in Runs : q < r => pc[q] \in Terminal
    /\ pc' = [pc EXCEPT ![r] = "parse_mail"]
    /\ UNCHANGED <<input, email, public_key, result, is_verified, captures, out>>

\* What parse_mail can return on run r's raw_email: Ok or Err, and what it
\* returned before on the same bytes.
ParseResults(r) ==
    { x \in {"ok", "err"} :
        \A q \in Runs : (email[q] # "none" /\ input[q].raw_email = input[r].raw_email)
                        => x = email[q] }

\* parse_mail's result is not unwrapped: an Err goes on to the next line.
ParseMail_NoUnwrap(r) ==
    /\ pc[r] = "parse_mail"
    /\ \E x \in ParseResults(r) :
        /\ email' = [email EXCEPT ![r] = x]
        /\ pc' = [pc EXCEPT ![r] = "from_vec"]
    /\ UNCHANGED <<input, public_key, result, is_verified, captures, out>>

\* Line 19: parse_mail(&raw_email).unwrap()
ParseMail(r) ==
    /\ pc[r] = "parse_mail"
    /\ \E x \in ParseResults(r) :
        /\ email' = [email EXCEPT ![r] = x]
        /\ pc' = [pc EXCEPT ![r] = IF x = "ok" THEN "from_vec" ELSE "panicked"]
    /\ UNCHANGED <<input, public_key, result, is_verified, captures, out>>

\* What from_vec_with_type can do on run r's key bytes and type: return the
\* key or panic, and what it did before on the same arguments.
KeyResults(r) ==
    { x \in {"ok", "panic"} :
        \A q \in Runs : ( /\ public_key[q] # "none"
                          /\ input[q].public_key_vec = input[r].public_key_vec
                          /\ input[q].public_key_type = input[r].public_key_type )
                        => x = public_key[q] }

\* Line 20: DkimPublicKey::from_vec_with_type(&public_key_vec, &public_key_type)
FromVecWithType(r) ==
    /\ pc[r] = "from_vec"
    /\ \E x \in KeyResults(r) :
        /\ public_key' = [public_key EXCEPT ![r] = x]
        /\ pc' = [pc EXCEPT ![r] = IF x = "ok" THEN "commit_domain" ELSE "panicked"]
    /\ UNCHANGED <<input, email, result, is_verified, captures, out>>

\* The first commit writes the key's digest.
CommitFromDomainHash_KeyFirst(r) ==
    /\ pc[r] = "commit_domain"
    /\ out' = [out EXCEPT ![r] = Append(@, Slice(Sha256(input[r].public_key_vec)))]
    /\ pc' = [pc EXCEPT ![r] = "commit_key"]
    /\ UNCHANGED <<input, email, public_key, result, is_verified, captures>>

\* Lines 26-28, 30: commit_slice(&from_domain_hash)
CommitFromDomainHash(r) ==
    /\ pc[r] = "commit_domain"
    /\ out' = [out EXCEPT ![r] = Append(@, Slice(from_domain_hash(r)))]
    /\ pc' = [pc EXCEPT ![r] = "commit_key"]
    /\ UNCHANGED <<input, email, public_key, result, is_verified, captures>>

\* Lines 22-24, 31: commit_slice(&public_key_hash)
CommitPublicKeyHash(r) ==
    /\ pc[r] = "commit_key"
    /\ out' = [out EXCEPT ![r] = Append(@, Slice(public_key_hash(r)))]
    /\ pc' = [pc EXCEPT ![r] = "verify"]
    /\ UNCHANGED <<input, email, public_key, result, is_verified, captures>>

\* A verifier whose result is not settled by its arguments.
VerifyResults_Unsettled(r) == Summaries \cup {"err"}

\* What verify_email_with_public_key can return on run r's domain, email and
\* key: Err or Ok of a summary, and what it returned before on the same
\* arguments.
VerifyResults(r) ==
    { x \in Summaries \cup {"err"} :
        \A q \in Runs : (result[q] # "none" /\ input[q] = input[r]) => x = result[q] }

\* Line 34: verify_email_with_public_key(&from_domain, &email, &public_key).unwrap()
Verify(r) ==
    /\ pc[r] = "verify"
    /\ \E x \in VerifyResults(r) :
        /\ result' = [result EXCEPT ![r] = x]
        /\ pc' = [pc EXCEPT ![r] = IF x = "err" THEN "panicked" ELSE "reduce"]
    /\ UNCHANGED <<input, email, public_key, is_verified, captures, out>>

\* Every summary but "fail" counts.
IsPass_NotFail(summary) == summary # "fail"

\* Line 35: result.summary() == "pass"
IsPass(summary) == summary = "pass"

\* Lines 35-42: is_verified, and commit(&true) or commit(&false)
CommitVerified(r) ==
    /\ pc[r] = "reduce"
    /\ is_verified' = [is_verified EXCEPT ![r] = IsPass(result[r])]
    /\ out' = [out EXCEPT ![r] = Append(@, IF is_verified'[r] THEN Bool(TRUE) ELSE Bool(FALSE))]
    /\ pc' = [pc EXCEPT ![r] = "extract"]
    /\ UNCHANGED <<input, email, public_key, result, captures>>

\* The fields are extracted in the verified branch only.
Extract_WhenVerified(r) ==
    /\ pc[r] = "extract"
    /\ captures' = [captures EXCEPT ![r] = Captures(email_body(r))]
    /\ pc' = [pc EXCEPT ![r] = IF captures'[r].ok /\ is_verified[r] THEN "commit_1" ELSE "done"]
    /\ UNCHANGED <<input, email, public_key, result, is_verified, out>>

\* Lines 45-49: the lossy decoding, the regex, and the test of its result
Extract(r) ==
    /\ pc[r] = "extract"
    /\ captures' = [captures EXCEPT ![r] = Captures(email_body(r))]
    /\ pc' = [pc EXCEPT ![r] = IF captures'[r].ok THEN "commit_1" ELSE "done"]
    /\ UNCHANGED <<input, email, public_key, result, is_verified, out>>

\* The amount's commit is missing: the account follows the payee.
CommitCapture_NoAmount(r, i) ==
    /\ pc[r] = <<"commit_1", "commit_2", "commit_3">>[i]
    /\ out' = [out EXCEPT ![r] = Append(@, String(GroupText(email_body(r), captures[r], i)))]
    /\ pc' = [pc EXCEPT ![r] = <<"commit_3", "commit_3", "done">>[i]]
    /\ UNCHANGED <<input, email, public_key, result, is_verified, captures>>

\* Lines 50-52: commit(&captures.get(i).map_or("", |m| m.as_str()).to_string())
CommitCapture(r, i) ==
    /\ pc[r] = <<"commit_1", "commit_2", "commit_3">>[i]
    /\ out' = [out EXCEPT ![r] = Append(@, String(GroupText(email_body(r), captures[r], i)))]
    /\ pc' = [pc EXCEPT ![r] = <<"commit_2", "commit_3", "done">>[i]]
    /\ UNCHANGED <<input, email, public_key, result, is_verified, captures>>

Next ==
    \E r \in Runs :
        \/ ReadInputs(r)
        \/ ParseMail(r)
        \/ FromVecWithType(r)
        \/ CommitFromDomainHash(r)
        \/ CommitPublicKeyHash(r)
        \/ Verify(r)
        \/ CommitVerified(r)
        \/ Extract(r)
        \/ \E i \in 1..3 : CommitCapture(r, i)

\* Two runs on the same four inputs.
Spec == Init /\ [][Next]_vars

\* Two runs on inputs chosen one independently of the other.
SpecPair == InitPair /\ [][Next]_vars

(***************************************************************************)
(* Properties                                                              *)
(***************************************************************************)
KeyFingerprint(r) == Slice(Sha256(input[r].public_key_vec))
DomainFingerprint(r) == Slice(Sha256(AsBytes(input[r].from_domain)))

\* The run has committed the boolean's place: the verifier returned a summary
\* and lines 35-42 have acted.
Reduced(r) == result[r] \in Summaries /\ pc[r] # "reduce"

C2_BooleanThird ==
    \A r \in Runs :
        /\ Reduced(r) =>
             /\ Len(out[r]) >= 3
             /\ out[r][3] = Bool(result[r] = "pass")
        /\ \A i \in 1..Len(out[r]) :
             /\ i < 3 => out[r][i].kind = "slice"
             /\ i = 3 => out[r][i].kind = "bool"
             /\ i > 3 => out[r][i].kind = "string"

\* A run whose verifier said "neutral" has committed false and then fields.
C2_Witness ==
    \E r \in Runs :
        /\ result[r] = "neutral" /\ pc[r] = "done"
        /\ Len(out[r]) = 6 /\ out[r][3] = Bool(FALSE)

\* C3: when parse_mail fails on the raw email, or from_vec_with_type fails on
\* the key bytes and type, the run has aborted and has committed nothing, then
\* and ever after.
C3_DecodeFailureCommitsNothing ==
    \A r \in Runs :
        (email[r] = "err" \/ public_key[r] = "panic")
            => pc[r] = "panicked" /\ out[r] = << >>

\* One run aborted in parse_mail and the run after it in the same place.
C3_Witness ==
    /\ email[1] = "err" /\ pc[1] = "panicked"
    /\ email[2] = "err" /\ pc[2] = "panicked"

\* The key materializer's failure, the other case of C3.
C3_KeyWitness == \E r \in Runs : public_key[r] = "panic" /\ pc[r] = "panicked"

\* C4, as stated: a run that ended has committed nothing (it aborted), or the
\* two fingerprints, the boolean and then no field or three fields.
C4_TerminalShape ==
    \A r \in Runs :
        /\ pc[r] = "panicked" => out[r] = << >>
        /\ pc[r] = "done" => Len(out[r]) \in {3, 6}

\* C5: a run that completes has committed three values (slice, slice,
\* boolean) when the pattern does not match the email text, and six when it
\* does (captures is Some), the last three being the payee, the amount and
\* the account: groups 1, 2 and 3 of the match.
C5_ThreeOrSix ==
    \A r \in Runs :
        pc[r] = "done" =>
            LET t == FromUtf8Lossy(input[r].raw_email)
                m == captures[r]
            IN  /\ out[r][1].kind = "slice" /\ out[r][2].kind = "slice"
                /\ out[r][3].kind = "bool"
                /\ ~m.ok => Len(out[r]) = 3
                /\ m.ok => /\ Len(out[r]) = 6
                           /\ out[r][4] = String(GroupText(t, m, 1))
                           /\ out[r][5] = String(GroupText(t, m, 2))
                           /\ out[r][6] = String(GroupText(t, m, 3))

\* A completed run with three values and a completed run with six.
C5_Witness ==
    \E r \in Runs :
        /\ pc[r] = "done" /\ Len(out[r]) = 6
        /\ out[r][5] = String(<<"1", ".", "5", "0">>)

C5_WitnessNoMatch == \E r \in Runs : pc[r] = "done" /\ Len(out[r]) = 3

\* C6, as stated: on the email "Paid to : Jane Doe ... ₹100.00 ...
\* Debited from : ABC123" a completed run commits the payee "Jane", the
\* amount "100.00" and the account "ABC123".
C6_GoldenFields ==
    \A r \in Runs :
        (pc[r] = "done" /\ input[r].raw_email = GoldenEmail) =>
            /\ Len(out[r]) = 6
            /\ out[r][4] = String(<<"J", "a", "n", "e">>)
            /\ out[r][5] = String(<<"1", "0", "0", ".", "0", "0">>)
            /\ out[r][6] = String(<<"A", "B", "C", "1", "2", "3">>)

\* What the program commits on that email: the payee is the single char "J".
C6_GoldenAsRun ==
    \A r \in Runs :
        (pc[r] = "done" /\ input[r].raw_email = GoldenEmail) =>
            /\ Len(out[r]) = 6
            /\ out[r][4] = String(<<"J">>)
            /\ out[r][5] = String(<<"1", "0", "0", ".", "0", "0">>)
            /\ out[r][6] = String(<<"A", "B", "C", "1", "2", "3">>)

\* v is a value run r may commit: one of the two fingerprints, the
\* verification boolean, one of the three captured substrings of the email text.
Committable(r, v) ==
    CASE v.kind = "slice"  -> v \in {DomainFingerprint(r), KeyFingerprint(r)}
      [] v.kind = "bool"   -> v = Bool(result[r] = "pass")
      [] v.kind = "string" ->
            /\ captures[r].ok
            /\ \E i \in 1..3 :
                 /\ captures[r].groups[i].set
                 /\ v.val = GroupText(FromUtf8Lossy(input[r].raw_email), captures[r], i)

\* The fields of a run past its extraction: the captured substrings, or none.
Fields(r) ==
    LET t == FromUtf8Lossy(input[r].raw_email)
        m == captures[r]
    IN  IF m.ok THEN <<GroupText(t, m, 1), GroupText(t, m, 2), GroupText(t, m, 3)>>
        ELSE << >>

C8_WitnessAbort ==
    /\ input[1] = input[2]
    /\ pc[1] = "panicked" /\ pc[2] = "panicked" /\ Len(out[2]) = 2

\* The position after the whitespace that follows position p - 1.
SkipSpace(t, p) == p + RunLen(t, p, Space)

\* The position after "\s*:\s*" read from p on, or 0 when no colon stands there.
AfterColon(t, p) ==
    LET c == SkipSpace(t, p)
    IN  IF c <= Len(t) /\ t[c] = ":" THEN SkipSpace(t, c + 1) ELSE 0

\* A currency amount stands at r: the marker, whitespace, digits.
AmountAt(t, r) == t[r] = Rupee /\ RunLen(t, SkipSpace(t, r + 1), Digit) >= 1

\* Where the digits of the amount at r begin, and the position after the amount.
AmountFrom(t, r) == SkipSpace(t, r + 1)
AmountEnd(t, r) ==
    LET e == AmountFrom(t, r) + RunLen(t, AmountFrom(t, r), Digit)
    IN  IF SeqAt(t, e, <<Ch("."), Digit, Digit>>) THEN e + 3 ELSE e

\* A "Debited from" label stands at d, followed by a colon and an account token.
AccountAt(t, d) ==
    /\ SeqAt(t, d, Lit(DebitedFrom).cs)
    /\ AfterColon(t, d + Len(DebitedFrom)) > 0
    /\ RunLen(t, AfterColon(t, d + Len(DebitedFrom)), UpperOrDigit) >= 1

\* The account token after the label at d.
TokenAfter(t, d) ==
    LET a == AfterColon(t, d + Len(DebitedFrom))
    IN  SubSeq(t, a, a + RunLen(t, a, UpperOrDigit) - 1)

Min(S) == CHOOSE x \in S : \A y \in S : x <= y
Max(S) == CHOOSE x \in S : \A y \in S : x >= y

PaidToStarts(t) == { s \in 1..Len(t) : SeqAt(t, s, Lit(PaidTo).cs) }

\* Where the payee begins: after the one "Paid to" label, its colon and whitespace.
PayeeFrom(t) == AfterColon(t, Min(PaidToStarts(t)) + Len(PaidTo))

\* The currency amounts after the payee's first char.
AmountsAfterPayee(t) == { r \in (PayeeFrom(t) + 1)..Len(t) : AmountAt(t, r) }

\* The labels with an account token after the first of those amounts.
LabelsAfterAmount(t) ==
    { d \in AmountEnd(t, Min(AmountsAfterPayee(t)))..Len(t) : AccountAt(t, d) }

\* The case of C9: one "Paid to" label with its colon, then on one line a
\* payee that does not begin with the currency marker, a currency amount and
\* several "Debited from" labels with account tokens.
SeveralOccurrences(t) ==
    /\ Cardinality(PaidToStarts(t)) = 1
    /\ PayeeFrom(t) \in 1..Len(t)
    /\ t[PayeeFrom(t)] # Rupee
    /\ \A i \in PayeeFrom(t)..Len(t) : t[i] # LF
    /\ AmountsAfterPayee(t) # {}
    /\ Cardinality(LabelsAfterAmount(t)) >= 2

\* C9, as stated: in that case the committed account token is the one after
\* the last "Debited from" label.
C9_BindsLastLabel ==
    \A r \in Runs :
        LET t == FromUtf8Lossy(input[r].raw_email)
        IN  (pc[r] = "done" /\ SeveralOccurrences(t)) =>
                /\ Len(out[r]) = 6
                /\ out[r][6] = String(TokenAfter(t, Max(LabelsAfterAmount(t))))

\* C9, amended: the two gaps are lazy. In that case the committed amount is
\* the first currency amount after the payee's first char, and the committed
\* account token is the one after the first "Debited from" label that follows
\* this amount and has an account token.
C9_BindsFirstLabel ==
    \A r \in Runs :
        LET t == FromUtf8Lossy(input[r].raw_email)
        IN  (pc[r] = "done" /\ SeveralOccurrences(t)) =>
                LET a == Min(AmountsAfterPayee(t))
                IN  /\ Len(out[r]) = 6
                    /\ out[r][4] = String(<<t[PayeeFrom(t)]>>)
                    /\ out[r][5] = String(SubSeq(t, AmountFrom(t, a), AmountEnd(t, a) - 1))
                    /\ out[r][6] = String(TokenAfter(t, Min(LabelsAfterAmount(t))))

\* A completed run on an email of that case whose first and last labels
\* carry different account tokens.
C9_Witness ==
    \E r \in Runs :
        LET t == FromUtf8Lossy(input[r].raw_email)
        IN  /\ pc[r] = "done" /\ SeveralOccurrences(t)
            /\ TokenAfter(t, Min(LabelsAfterAmount(t))) # TokenAfter(t, Max(LabelsAfterAmount(t)))
            /\ out[r][6] = String(TokenAfter(t, Min(LabelsAfterAmount(t))))

\* C10: the fields committed after the boolean depend on the raw email alone:
\* two completed runs on the same raw email commit the same values after the
\* boolean, whatever their booleans; and a run whose verifier returned a
\* summary ends only after the extraction, with the fields of its email.
C10_FieldsIndependentOfVerdict ==
    /\ \A r, q \in Runs :
         (pc[r] = "done" /\ pc[q] = "done" /\ input[r].raw_email = input[q].raw_email)
            => SubSeq(out[r], 4, Len(out[r])) = SubSeq(out[q], 4, Len(out[q]))
    /\ \A r \in Runs :
         (result[r] \in Summaries /\ pc[r] \in Terminal) =>
            /\ pc[r] = "done"
            /\ [i \in 1..(Len(out[r]) - 3) |-> out[r][i + 3].val] = Fields(r)

\* Two completed runs on the same raw email, one verified and one not, both
\* with the three fields.
C10_Witness ==
    /\ pc[1] = "done" /\ pc[2] = "done"
    /\ input[1].raw_email = input[2].raw_email
    /\ is_verified[1] /\ ~is_verified[2]
    /\ Len(out[1]) = 6 /\ Len(out[2]) = 6

====
